---- MODULE Spec2Model ----
(***************************************************************************)
(* Binary provisioning and resolution of the TypeScript and ESLint         *)
(* language-server adapters (crates/zed/src/languages/typescript.rs).      *)
(*                                                                         *)
(* The filesystem is a set of directories and a map from file paths to     *)
(* their contents; a path is a sequence of components.  Each adapter has   *)
(* its own container directory and the two share no mutable state, so a    *)
(* behaviour follows the callers of one adapter (`tool`), chosen in Init.  *)
(* A caller (process) is either idle or at an await point of               *)
(* fetch_server_binary.                                                    *)
(***************************************************************************)
EXTENDS Integers, Sequences, FiniteSets, TLC

\* Versions a remote source can report: 1..MaxVersion.
MaxVersion == 2

Versions == 1..MaxVersion

\* The launcher lookups, registry queries and subprocesses report failure as 0.
Failed == 0

Procs == {"p1", "p2"}

Adapters == {"ts", "es"}

VARIABLES
    tool,    \* the adapter this behaviour follows: "ts" or "es"
    fs,      \* the filesystem: [dirs: set of paths, files: path -> contents]
    pc,      \* per caller: "off", "idle", or the await point it is suspended at
    call,    \* per caller: the call in progress, or the last one made
    loc,     \* per caller: locals of fetch_server_binary (the entry `first`)
    ret,     \* per caller: what the last call returned
    tok,     \* per caller: the version token the last fetch_latest_server_version gave
    trace,   \* per caller: the capabilities the current/last call invoked, in order
    fault,   \* per caller: a capability of the current/last call failed for an outside reason
    prev,    \* per caller: its fetch_server_binary call before the current/last call
    fresh    \* per caller: nothing has written to the filesystem since its last return

vars == <<tool, fs, pc, call, loc, ret, tok, trace, fault, prev, fresh>>

-----------------------------------------------------------------------------
\* Paths

OLD_SERVER_PATH == <<"node_modules", "typescript-language-server", "lib", "cli.js">>

NEW_SERVER_PATH == <<"node_modules", "typescript-language-server", "lib", "cli.mjs">>

SERVER_PATH == <<"vscode-eslint", "server", "out", "eslintServer.js">>

\* Where the package manager puts the "typescript" package's library.
TypeScriptLib == <<"node_modules", "typescript", "lib">>

\* container_dir of each adapter
ContainerDir(a) == <<a>>

\* node.binary_path()
NodeBinary == <<"node", "bin", "node">>

NoPath == <<>>

\* Path::join
Join(base, rel) == base \o rel

\* format!("vscode-eslint-{}", version.name)
DestinationName(name) == "vscode-eslint-" \o name

\* release.name of the release with number v
ReleaseName(v) == ToString(v)

\* release.tarball_url of the release with number v
TarballUrl(v) == "tarball-" \o ToString(v)

\* The single top-level directory of the source archive behind a tarball url.
ArchiveRoot(url) == "microsoft-vscode-eslint-" \o url

\* A stray file a container directory may hold (the directory is the caller's).
StrayName == ".DS_Store"

typescript_server_binary_arguments(server_path) ==
    <<server_path, <<"--stdio">>, <<"--tsserver-path">>, <<"node_modules/typescript/lib">>>>

eslint_server_binary_arguments(server_path) == <<server_path, <<"--stdio">>>>

-----------------------------------------------------------------------------
\* Filesystem primitives

IsPrefix(d, p) == Len(d) <= Len(p) /\ SubSeq(p, 1, Len(d)) = d

Exists(f, p) == p \in f.dirs \/ p \in DOMAIN f.files

IsDir(f, p) == p \in f.dirs

\* The directories from `base` down to the parent of p.
Parents(base, p) == {SubSeq(p, 1, n) : n \in Len(base)..(Len(p) - 1)}

WriteFile(f, base, p, c) ==
    [dirs  |-> f.dirs \cup Parents(base, p),
     files |-> [q \in DOMAIN f.files \cup {p} |-> IF q = p THEN c ELSE f.files[q]]]

CreateDirAll(f, base, d) == [f EXCEPT !.dirs = @ \cup Parents(base, d) \cup {d}]

RemoveAll(f, d) ==
    [dirs  |-> {q \in f.dirs : ~IsPrefix(d, q)},
     files |-> [q \in {x \in DOMAIN f.files : ~IsPrefix(d, x)} |-> f.files[q]]]

\* The immediate entries of directory d.
Entries(f, d) ==
    {q \in f.dirs \cup DOMAIN f.files : Len(q) = Len(d) + 1 /\ IsPrefix(d, q)}

Rebase(from, to, q) ==
    IF IsPrefix(from, q) THEN to \o SubSeq(q, Len(from) + 1, Len(q)) ELSE q

\* The tree at `from` moved to `to` (nothing is at `to`, or from = to).
MoveTree(f, from, to) ==
    [dirs  |-> {Rebase(from, to, q) : q \in f.dirs},
     files |-> [q \in {Rebase(from, to, x) : x \in DOMAIN f.files} |->
                   f.files[CHOOSE x \in DOMAIN f.files : Rebase(from, to, x) = q]]]

\* fs::rename(from, to): [ok, fs].  Renaming a path to itself does nothing; a
\* directory cannot replace a non-empty directory or a file.
Rename(f, from, to) ==
    IF ~Exists(f, from) THEN [ok |-> FALSE, fs |-> f]
    ELSE IF from = to THEN [ok |-> TRUE, fs |-> f]
    ELSE IF Exists(f, to) /\ (~IsDir(f, to) \/ Entries(f, to) # {} \/ ~IsDir(f, from))
        THEN [ok |-> FALSE, fs |-> f]
    ELSE [ok |-> TRUE, fs |-> MoveTree(RemoveAll(f, to), from, to)]

-----------------------------------------------------------------------------
\* Version tokens (Box<dyn Any>: the kind is the dynamic type) and results

NoToken == [kind |-> "none"]

TypeScriptVersions(typescript_version, server_version) ==
    [kind |-> "ts", typescript_version |-> typescript_version,
     server_version |-> server_version]

GitHubLspBinaryVersion(name, url) == [kind |-> "es", name |-> name, url |-> url]

Ok(path, arguments) ==
    [status |-> "ok", path |-> path, arguments |-> arguments, msg |-> "",
     version |-> NoToken]

OkVersion(token) ==
    [status |-> "ok", path |-> NoPath, arguments |-> <<>>, msg |-> "", version |-> token]

Err(msg) ==
    [status |-> "err", path |-> NoPath, arguments |-> <<>>, msg |-> msg,
     version |-> NoToken]

\* ResultExt::log_err: Ok(x) becomes Some(x), Err(e) is logged and becomes None.
LogErr(r) ==
    IF r.status = "ok" THEN [r EXCEPT !.status = "some"]
    ELSE [r EXCEPT !.status = "none"]

NoRet == [status |-> "unset", path |-> NoPath, arguments |-> <<>>, msg |-> "",
          version |-> NoToken]

NoCall == [op |-> "none", adapter |-> "none", version |-> NoToken, empty |-> FALSE]

NoPrev == [call |-> NoCall, ret |-> NoRet, fresh |-> FALSE]

\* What a caller remembers when it begins a call: its latest
\* fetch_server_binary call (c, r when the call before was one, else the one
\* remembered in `before`) with its result, and whether the filesystem is
\* still as that call left it.
Remember(before, c, r, unchanged) ==
    IF c.op = "fetch_server_binary" THEN [call |-> c, ret |-> r, fresh |-> unchanged]
    ELSE [before EXCEPT !.fresh = @ /\ unchanged]

\* Contents of a file: the version token of the install that wrote it, and
\* whether that install had run all its steps when it wrote it.
Contents(by, done) == [by |-> by, done |-> done]

-----------------------------------------------------------------------------
\* Capabilities the adapters consume

\* util::fs::remove_matching: every immediate entry of dir the predicate
\* accepts (those in `accepted`) is removed, a file as a file and a directory
\* with all it holds.
RemoveMatching(f, dir, accepted) ==
    LET gone == Entries(f, dir) \cap accepted
    IN  [dirs  |-> {q \in f.dirs : \A e \in gone : ~IsPrefix(e, q)},
         files |-> [q \in {x \in DOMAIN f.files : \A e \in gone : ~IsPrefix(e, x)}
                       |-> f.files[q]]]

\* NodeRuntime::npm_install_packages(dir, [typescript, typescript-language-server]).
\* outcome "ok": both packages are in place.  "partial": the call failed (or was
\* dropped) after the server package landed.  "nothing": it failed before writing.
\* A server package of an older layout is replaced or left, as the package manager
\* decides (keep_old).
NpmInstallPackages(f, dir, version, outcome, keep_old) ==
    LET g == IF keep_old \/ outcome = "nothing" THEN f
             ELSE RemoveMatching(f, Join(dir, <<"node_modules", "typescript-language-server", "lib">>),
                                 {Join(dir, OLD_SERVER_PATH)})
    IN  CASE outcome = "ok" ->
               CreateDirAll(WriteFile(g, dir, Join(dir, NEW_SERVER_PATH), Contents(version, TRUE)),
                            dir, Join(dir, TypeScriptLib))
          [] outcome = "partial" ->
               WriteFile(g, dir, Join(dir, NEW_SERVER_PATH), Contents(version, FALSE))
          [] OTHER -> f

NpmInstallOutcomes == {"ok", "partial", "nothing"}

\* Archive::unpack(destination) of the archive behind url.  It creates the
\* destination directory, then writes the archive's entries under it.
\* shape "single": one top-level directory; "empty": no entry at all.
\* outcome "ok"; "partial": failed after creating the top-level directory;
\* "nothing": failed before writing anything.
Unpack(f, container, destination, url, shape, outcome) ==
    LET root == Join(destination, <<ArchiveRoot(url)>>)
    IN  CASE outcome = "nothing" -> f
          [] shape = "empty" -> CreateDirAll(f, container, destination)
          [] outcome = "partial" -> CreateDirAll(f, container, root)
          [] OTHER -> WriteFile(f, container, Join(root, <<"package.json">>),
                                Contents(NoToken, TRUE))

ArchiveShapes == {"single", "empty"}

UnpackOutcomes == {"ok", "partial", "nothing"}

\* NodeRuntime::run_npm_subcommand(repo_root, "install"): needs the package
\* manifest; when it succeeds the dependencies are in repo_root/node_modules.
RunNpmInstall(f, container, repo_root, ok) ==
    IF ok /\ Exists(f, Join(repo_root, <<"package.json">>))
    THEN [ok |-> TRUE, fs |-> CreateDirAll(f, container, Join(repo_root, <<"node_modules">>))]
    ELSE [ok |-> FALSE, fs |-> f]

\* NodeRuntime::run_npm_subcommand(repo_root, "run-script", ["compile"]): needs
\* the manifest and the dependencies; it writes server/out/eslintServer.js.
\* outcome "ok"; "emitted": the script failed after the compiler had written
\* the server file; "nothing": it failed before writing.
RunNpmCompile(f, container, repo_root, version, outcome) ==
    LET ready  == Exists(f, Join(repo_root, <<"package.json">>))
                  /\ Exists(f, Join(repo_root, <<"node_modules">>))
        server == Join(repo_root, <<"server", "out", "eslintServer.js">>)
    IN  IF ~ready \/ outcome = "nothing" THEN [ok |-> FALSE, fs |-> f]
        ELSE IF outcome = "emitted"
            THEN [ok |-> FALSE, fs |-> WriteFile(f, container, server, Contents(version, FALSE))]
        ELSE [ok |-> TRUE, fs |-> WriteFile(f, container, server, Contents(version, TRUE))]

CompileOutcomes == {"ok", "emitted", "nothing"}

-----------------------------------------------------------------------------
\* TypeScriptLspAdapter

\* TsFetchLatestServerVersion keeping whatever the second query gave.
TsFetchLatestServerVersionPartial(typescript, server) ==
    IF typescript = Failed THEN Err("npm_package_latest_version typescript")
    ELSE OkVersion(TypeScriptVersions(typescript, server))

\* fetch_latest_server_version: the two registry queries, each a version or
\* Failed; `?` returns at the first failure.
TsFetchLatestServerVersion(typescript, server) ==
    IF typescript = Failed THEN Err("npm_package_latest_version typescript")
    ELSE IF server = Failed THEN Err("npm_package_latest_version typescript-language-server")
    ELSE OkVersion(TypeScriptVersions(typescript, server))

\* The registry queries fetch_latest_server_version makes.
TsFetchLatestQueries(typescript) ==
    IF typescript = Failed THEN <<"latest_version">>
    ELSE <<"latest_version", "latest_version">>

\* let server_path = container_dir.join(Self::NEW_SERVER_PATH)
TsServerPath(container_dir) == Join(container_dir, NEW_SERVER_PATH)

\* TsMetadataIsErr satisfied by either layout.
TsMetadataIsErrEitherLayout(f, container_dir) ==
    ~(Exists(f, Join(container_dir, NEW_SERVER_PATH))
      \/ Exists(f, Join(container_dir, OLD_SERVER_PATH)))

\* TsMetadataIsErr probing the legacy layout.
TsMetadataIsErrOldPath(f, container_dir) == ~Exists(f, Join(container_dir, OLD_SERVER_PATH))

\* fs::metadata(&server_path).await.is_err()
TsMetadataIsErr(f, container_dir) == ~Exists(f, TsServerPath(container_dir))

\* The value fetch_server_binary returns once the install is done or skipped.
TsFetchResult(container_dir, launcher_ok) ==
    IF ~launcher_ok THEN Err("binary_path")
    ELSE Ok(NodeBinary, typescript_server_binary_arguments(TsServerPath(container_dir)))

\* TsCachedLookup trying the legacy layout first.
TsCachedLookupOldFirst(f, container_dir, launcher_ok) ==
    LET old_server_path == Join(container_dir, OLD_SERVER_PATH)
        new_server_path == Join(container_dir, NEW_SERVER_PATH)
    IN  IF ~launcher_ok /\ (Exists(f, old_server_path) \/ Exists(f, new_server_path))
            THEN Err("binary_path")
        ELSE IF Exists(f, old_server_path)
            THEN Ok(NodeBinary, typescript_server_binary_arguments(old_server_path))
        ELSE IF Exists(f, new_server_path)
            THEN Ok(NodeBinary, typescript_server_binary_arguments(new_server_path))
        ELSE Err("missing executable in directory")

\* The closure of cached_server_binary, before log_err.
TsCachedLookup(f, container_dir, launcher_ok) ==
    LET old_server_path == Join(container_dir, OLD_SERVER_PATH)
        new_server_path == Join(container_dir, NEW_SERVER_PATH)
    IN  IF Exists(f, new_server_path) THEN
            IF launcher_ok
            THEN Ok(NodeBinary, typescript_server_binary_arguments(new_server_path))
            ELSE Err("binary_path")
        ELSE IF Exists(f, old_server_path) THEN
            IF launcher_ok
            THEN Ok(NodeBinary, typescript_server_binary_arguments(old_server_path))
            ELSE Err("binary_path")
        ELSE Err("missing executable in directory")

\* The capabilities cached_server_binary invokes, in order.
TsCachedCapabilities(f, container_dir) ==
    IF Exists(f, Join(container_dir, NEW_SERVER_PATH)) THEN <<"exists", "binary_path">>
    ELSE IF Exists(f, Join(container_dir, OLD_SERVER_PATH))
        THEN <<"exists", "exists", "binary_path">>
    ELSE <<"exists", "exists">>

TsCachedServerBinary(f, container_dir, launcher_ok) ==
    LogErr(TsCachedLookup(f, container_dir, launcher_ok))

-----------------------------------------------------------------------------
\* EsLintLspAdapter

\* EsFetchLatestServerVersion falling back to a pinned release when the feed fails.
EsFetchLatestServerVersionFallback(release) ==
    LET r == IF release = Failed THEN 1 ELSE release
    IN  OkVersion(GitHubLspBinaryVersion(ReleaseName(r), TarballUrl(r)))

\* fetch_latest_server_version: the release feed answers with a release or fails.
EsFetchLatestServerVersion(release) ==
    IF release = Failed THEN Err("latest_github_release")
    ELSE OkVersion(GitHubLspBinaryVersion(ReleaseName(release), TarballUrl(release)))

\* let destination_path = container_dir.join(format!("vscode-eslint-{}", version.name))
EsDestinationPath(container_dir, version) ==
    Join(container_dir, <<DestinationName(version.name)>>)

\* let server_path = destination_path.join(Self::SERVER_PATH)
EsServerPath(container_dir, version) ==
    Join(EsDestinationPath(container_dir, version), SERVER_PATH)

\* let repo_root = destination_path.join("vscode-eslint")
EsRepoRoot(destination_path) == Join(destination_path, <<"vscode-eslint">>)

\* EsMetadataIsErr looking for the server one level too high.
EsMetadataIsErrWrongPath(f, container_dir, version) ==
    ~Exists(f, Join(EsDestinationPath(container_dir, version),
                    <<"server", "out", "eslintServer.js">>))

\* fs::metadata(&server_path).await.is_err()
EsMetadataIsErr(f, container_dir, version) ==
    ~Exists(f, EsServerPath(container_dir, version))

\* EsIsStale with the comparison inverted.
EsIsStaleInverted(entry, destination_path) == entry = destination_path

\* EsIsStale accepting every entry.
EsIsStaleAlways(entry, destination_path) == TRUE

\* |entry| entry != destination_path
EsIsStale(entry, destination_path) == entry # destination_path

\* remove_matching(&container_dir, |entry| entry != destination_path)
EsRemoveStale(f, container_dir, version) ==
    RemoveMatching(f, container_dir,
                   {entry \in Entries(f, container_dir) :
                       EsIsStale(entry, EsDestinationPath(container_dir, version))})

\* fs::rename(first.path(), &repo_root)
EsNormalize(f, first, destination_path) == Rename(f, first, EsRepoRoot(destination_path))

\* The value fetch_server_binary returns once the install is done or skipped.
EsFetchResult(container_dir, version, launcher_ok) ==
    IF ~launcher_ok THEN Err("binary_path")
    ELSE Ok(NodeBinary, eslint_server_binary_arguments(EsServerPath(container_dir, version)))

\* EsCachedLookup without the is_dir test on the first entry.
EsCachedLookupNoDirCheck(f, container_dir, first) ==
    IF ~IsDir(f, container_dir) THEN Err("read_dir")
    ELSE IF first = NoPath THEN Err("missing first file")
    ELSE Ok(Join(first, SERVER_PATH), <<>>)

\* The closure of cached_server_binary, before log_err.  `first` is the entry
\* the directory enumeration yields first (NoPath when it yields none).
EsCachedLookup(f, container_dir, first) ==
    IF ~IsDir(f, container_dir) THEN Err("read_dir")
    ELSE IF first = NoPath THEN Err("missing first file")
    ELSE IF ~IsDir(f, first) THEN Err("First entry is not a directory")
    ELSE Ok(Join(first, SERVER_PATH), <<>>)

\* EsCachedServerBinary handing the closure's error to the caller.
EsCachedServerBinaryNoLog(f, container_dir, first) ==
    EsCachedLookup(f, container_dir, first)

EsCachedServerBinary(f, container_dir, first) ==
    LogErr(EsCachedLookup(f, container_dir, first))

\* FirstEntries yielding the directory itself when it has no entry.
FirstEntriesOrSelf(f, d) == IF Entries(f, d) = {} THEN {d} ELSE Entries(f, d)

\* What dir.next() can yield for a directory: any one of its entries (the
\* enumeration order is the filesystem's), or NoPath when it has none.
FirstEntries(f, d) == IF Entries(f, d) = {} THEN {NoPath} ELSE Entries(f, d)

-----------------------------------------------------------------------------
\* The state machine

NoLoc == [first |-> NoPath, shape |-> "none"]

\* A previous release of the editor may have left a legacy-layout server.
LegacyVersions == TypeScriptVersions(0, 0)

NoFiles == [dirs |-> {}, files |-> <<>>]

\* The container directory is missing, or empty, or (TypeScript) holds a
\* legacy-layout server.
InitFs(a) ==
    {NoFiles, CreateDirAll(NoFiles, ContainerDir(a), ContainerDir(a))}
    \cup IF a = "ts"
         THEN {WriteFile(CreateDirAll(NoFiles, ContainerDir(a), ContainerDir(a)), ContainerDir(a),
                         Join(ContainerDir(a), OLD_SERVER_PATH), Contents(LegacyVersions, TRUE))}
         ELSE {}

InitWith(callers) ==
    /\ tool \in Adapters
    /\ fs \in InitFs(tool)
    /\ pc = [p \in Procs |-> IF p \in callers THEN "idle" ELSE "off"]
    /\ call = [p \in Procs |-> NoCall]
    /\ loc = [p \in Procs |-> NoLoc]
    /\ ret = [p \in Procs |-> NoRet]
    /\ tok = [p \in Procs |-> NoToken]
    /\ trace = [p \in Procs |-> <<>>]
    /\ fault = [p \in Procs |-> FALSE]
    /\ prev = [p \in Procs |-> NoPrev]
    /\ fresh = [p \in Procs |-> FALSE]

\* One caller making one call after another.
Init == InitWith({"p1"})

\* The version tokens fetch_latest_server_version can give for an adapter.
TokensOf(a) ==
    IF a = "ts" THEN {TypeScriptVersions(t, s) : t \in Versions, s \in Versions}
    ELSE {GitHubLspBinaryVersion(ReleaseName(v), TarballUrl(v)) : v \in Versions}

\* Two callers, each holding a version token, over an empty container directory.
InitConcurrent ==
    /\ tool \in Adapters
    /\ fs = CreateDirAll(NoFiles, ContainerDir(tool), ContainerDir(tool))
    /\ pc = [p \in Procs |-> "idle"]
    /\ call = [p \in Procs |-> NoCall]
    /\ loc = [p \in Procs |-> NoLoc]
    /\ ret = [p \in Procs |-> NoRet]
    /\ tok \in [Procs -> TokensOf(tool)]
    /\ trace = [p \in Procs |-> <<>>]
    /\ fault = [p \in Procs |-> FALSE]
    /\ prev = [p \in Procs |-> NoPrev]
    /\ fresh = [p \in Procs |-> FALSE]

Begin(p, op, a, version) ==
    /\ pc[p] = "idle"
    /\ tool = a
    /\ call' = [call EXCEPT ![p] = [op |-> op, adapter |-> a, version |-> version,
                                    empty |-> op = "fetch_server_binary"
                                              /\ Entries(fs, ContainerDir(a)) = {}]]
    /\ prev' = [prev EXCEPT ![p] = Remember(prev[p], call[p], ret[p], fresh[p])]
    /\ tool' = tool

Goto(p, label) == pc' = [pc EXCEPT ![p] = label] /\ ret' = ret

Return(p, result) == pc' = [pc EXCEPT ![p] = "idle"] /\ ret' = [ret EXCEPT ![p] = result]

\* The filesystem after the step; a write ends every other caller's freshness.
Touch(p, newfs, returning) ==
    /\ fs' = newfs
    /\ fresh' = [q \in Procs |-> IF q = p THEN returning ELSE fresh[q] /\ newfs = fs]

\* The capabilities the step invoked, and whether one failed from outside.
Log(p, old, caps, failed) ==
    /\ trace' = [trace EXCEPT ![p] = old \o caps]
    /\ fault' = [fault EXCEPT ![p] = failed]

\* The caller creates the container directory.
CreateContainer(a) ==
    /\ tool = a
    /\ ~Exists(fs, ContainerDir(a))
    /\ Touch("env", CreateDirAll(fs, ContainerDir(a), ContainerDir(a)), FALSE)
    /\ UNCHANGED <<tool, pc, call, loc, ret, tok, trace, fault, prev>>

\* Something outside drops a file into the ESLint container directory.
StrayFile ==
    LET dir == ContainerDir("es")
    IN  /\ tool = "es"
        /\ IsDir(fs, dir)
        /\ ~Exists(fs, Join(dir, <<StrayName>>))
        /\ Touch("env", WriteFile(fs, dir, Join(dir, <<StrayName>>), Contents(NoToken, TRUE)), FALSE)
        /\ UNCHANGED <<tool, pc, call, loc, ret, tok, trace, fault, prev>>

----
\* TypeScriptLspAdapter::fetch_latest_server_version
TsFetchLatest(p) ==
    \E typescript, server \in {Failed} \cup Versions :
        LET result == TsFetchLatestServerVersion(typescript, server)
        IN  /\ Begin(p, "fetch_latest_server_version", "ts", NoToken)
            /\ Return(p, result)
            /\ tok' = [tok EXCEPT ![p] = result.version]
            /\ Log(p, <<>>, TsFetchLatestQueries(typescript),
                   typescript = Failed \/ server = Failed)
            /\ Touch(p, fs, TRUE)
            /\ loc' = [loc EXCEPT ![p] = NoLoc]

\* TypeScriptLspAdapter::fetch_server_binary, up to the existence check
TsFetchBegin(p) ==
    LET container_dir == ContainerDir("ts")
    IN  /\ tok[p].kind = "ts"
        /\ IsDir(fs, container_dir)
        /\ Begin(p, "fetch_server_binary", "ts", tok[p])
        /\ Goto(p, IF TsMetadataIsErr(fs, container_dir) THEN "ts_install" ELSE "ts_return")
        /\ Log(p, <<>>, <<"metadata">>, FALSE)
        /\ Touch(p, fs, FALSE)
        /\ loc' = [loc EXCEPT ![p] = NoLoc]
        /\ UNCHANGED tok

\* self.node.npm_install_packages(&container_dir, [...]).await?
TsInstall(p) ==
    /\ pc[p] = "ts_install"
    /\ \E outcome \in NpmInstallOutcomes, keep_old \in BOOLEAN :
        /\ Touch(p, NpmInstallPackages(fs, ContainerDir("ts"), call[p].version, outcome, keep_old),
                 outcome # "ok")
        /\ Log(p, trace[p], <<"npm_install_packages">>, outcome # "ok")
        /\ IF outcome = "ok" THEN Goto(p, "ts_return") ELSE Return(p, Err("npm_install_packages"))
    /\ UNCHANGED <<tool, call, loc, tok, prev>>

\* Ok(LanguageServerBinary { path: self.node.binary_path().await?, ... })
TsReturn(p) ==
    /\ pc[p] = "ts_return"
    /\ \E launcher_ok \in BOOLEAN :
        /\ Return(p, TsFetchResult(ContainerDir("ts"), launcher_ok))
        /\ Log(p, trace[p], <<"binary_path">>, ~launcher_ok)
    /\ Touch(p, fs, TRUE)
    /\ UNCHANGED <<tool, call, loc, tok, prev>>

\* TypeScriptLspAdapter::cached_server_binary
TsCached(p) ==
    \E launcher_ok \in BOOLEAN :
        LET result == TsCachedServerBinary(fs, ContainerDir("ts"), launcher_ok)
        IN  /\ Begin(p, "cached_server_binary", "ts", NoToken)
            /\ Return(p, result)
            /\ Log(p, <<>>, TsCachedCapabilities(fs, ContainerDir("ts")),
                   result.msg = "binary_path")
            /\ Touch(p, fs, TRUE)
            /\ loc' = [loc EXCEPT ![p] = NoLoc]
            /\ UNCHANGED tok

----
\* EsLintLspAdapter::fetch_latest_server_version
EsFetchLatest(p) ==
    \E release \in {Failed} \cup Versions :
        LET result == EsFetchLatestServerVersion(release)
        IN  /\ Begin(p, "fetch_latest_server_version", "es", NoToken)
            /\ Return(p, result)
            /\ tok' = [tok EXCEPT ![p] = result.version]
            /\ Log(p, <<>>, <<"latest_github_release">>, release = Failed)
            /\ Touch(p, fs, TRUE)
            /\ loc' = [loc EXCEPT ![p] = NoLoc]

\* fetch_server_binary taking a lock on the container before the existence
\* check: a caller waits while another one is inside its call.
EsFetchBeginLocked(p) ==
    LET container_dir == ContainerDir("es")
    IN  /\ \A q \in Procs \ {p} : pc[q] = "idle"
        /\ tok[p].kind = "es"
        /\ IsDir(fs, container_dir)
        /\ Begin(p, "fetch_server_binary", "es", tok[p])
        /\ Goto(p, IF EsMetadataIsErr(fs, container_dir, tok[p]) THEN "es_remove" ELSE "es_return")
        /\ Log(p, <<>>, <<"metadata">>, FALSE)
        /\ Touch(p, fs, FALSE)
        /\ loc' = [loc EXCEPT ![p] = NoLoc]
        /\ UNCHANGED tok

\* EsLintLspAdapter::fetch_server_binary, up to the existence check
EsFetchBegin(p) ==
    LET container_dir == ContainerDir("es")
    IN  /\ tok[p].kind = "es"
        /\ IsDir(fs, container_dir)
        /\ Begin(p, "fetch_server_binary", "es", tok[p])
        /\ Goto(p, IF EsMetadataIsErr(fs, container_dir, tok[p]) THEN "es_remove" ELSE "es_return")
        /\ Log(p, <<>>, <<"metadata">>, FALSE)
        /\ Touch(p, fs, FALSE)
        /\ loc' = [loc EXCEPT ![p] = NoLoc]
        /\ UNCHANGED tok

\* remove_matching(&container_dir, |entry| entry != destination_path).await
EsRemove(p) ==
    /\ pc[p] = "es_remove"
    /\ Touch(p, EsRemoveStale(fs, ContainerDir("es"), call[p].version), FALSE)
    /\ Log(p, trace[p], <<"remove_matching">>, FALSE)
    /\ Goto(p, "es_get")
    /\ UNCHANGED <<tool, call, loc, tok, prev>>

\* The download retried after a failure instead of returning the error.
EsGetRetry(p) ==
    /\ pc[p] = "es_get"
    /\ \E ok \in BOOLEAN, shape \in ArchiveShapes :
        /\ Log(p, trace[p], <<"http_get">>, ~ok)
        /\ Touch(p, fs, FALSE)
        /\ Goto(p, IF ok THEN "es_unpack" ELSE "es_get")
        /\ loc' = IF ok THEN [loc EXCEPT ![p].shape = shape] ELSE loc
    /\ UNCHANGED <<tool, call, tok, prev>>

\* http.get(&version.url, Default::default(), true).await.map_err(..)?
EsGet(p) ==
    /\ pc[p] = "es_get"
    /\ \E ok \in BOOLEAN, shape \in ArchiveShapes :
        /\ Log(p, trace[p], <<"http_get">>, ~ok)
        /\ Touch(p, fs, ~ok)
        /\ IF ok
           THEN Goto(p, "es_unpack") /\ loc' = [loc EXCEPT ![p].shape = shape]
           ELSE Return(p, Err("error downloading release")) /\ loc' = loc
    /\ UNCHANGED <<tool, call, tok, prev>>

\* archive.unpack(&destination_path).await?
EsUnpack(p) ==
    LET container_dir == ContainerDir("es")
    IN  /\ pc[p] = "es_unpack"
        /\ \E outcome \in UnpackOutcomes :
            /\ Touch(p, Unpack(fs, container_dir, EsDestinationPath(container_dir, call[p].version),
                               call[p].version.url, loc[p].shape, outcome),
                     outcome # "ok")
            /\ Log(p, trace[p], <<"unpack">>, outcome # "ok")
            /\ IF outcome = "ok" THEN Goto(p, "es_read_dir") ELSE Return(p, Err("unpack"))
        /\ UNCHANGED <<tool, call, loc, tok, prev>>

\* let mut dir = fs::read_dir(&destination_path).await?;
\* let first = dir.next().await.ok_or(anyhow!("missing first file"))??;
EsReadDir(p) ==
    LET destination_path == EsDestinationPath(ContainerDir("es"), call[p].version)
    IN  /\ pc[p] = "es_read_dir"
        /\ Log(p, trace[p], <<"read_dir">>, FALSE)
        /\ IF ~IsDir(fs, destination_path)
           THEN Return(p, Err("read_dir")) /\ Touch(p, fs, TRUE) /\ loc' = loc
           ELSE \E first \in FirstEntries(fs, destination_path) :
                    IF first = NoPath
                    THEN Return(p, Err("missing first file")) /\ Touch(p, fs, TRUE) /\ loc' = loc
                    ELSE /\ Goto(p, "es_rename")
                         /\ Touch(p, fs, FALSE)
                         /\ loc' = [loc EXCEPT ![p].first = first]
        /\ UNCHANGED <<tool, call, tok, prev>>

\* fs::rename(first.path(), &repo_root).await?
EsRename(p) ==
    LET destination_path == EsDestinationPath(ContainerDir("es"), call[p].version)
        renamed == EsNormalize(fs, loc[p].first, destination_path)
    IN  /\ pc[p] = "es_rename"
        /\ \E ok \in BOOLEAN :
            /\ Log(p, trace[p], <<"rename">>, ~ok)
            /\ IF ok /\ renamed.ok
               THEN Goto(p, "es_npm_install") /\ Touch(p, renamed.fs, FALSE)
               ELSE Return(p, Err("rename")) /\ Touch(p, fs, TRUE)
        /\ UNCHANGED <<tool, call, loc, tok, prev>>

\* self.node.run_npm_subcommand(&repo_root, "install", &[]).await?
EsNpmInstall(p) ==
    LET container_dir == ContainerDir("es")
        repo_root == EsRepoRoot(EsDestinationPath(container_dir, call[p].version))
    IN  /\ pc[p] = "es_npm_install"
        /\ \E ok \in BOOLEAN :
            LET r == RunNpmInstall(fs, container_dir, repo_root, ok)
            IN  /\ Log(p, trace[p], <<"npm_install">>, ~ok)
                /\ Touch(p, r.fs, ~r.ok)
                /\ IF r.ok THEN Goto(p, "es_compile") ELSE Return(p, Err("npm install"))
        /\ UNCHANGED <<tool, call, loc, tok, prev>>

\* self.node.run_npm_subcommand(&repo_root, "run-script", &["compile"]).await?
EsCompile(p) ==
    LET container_dir == ContainerDir("es")
        repo_root == EsRepoRoot(EsDestinationPath(container_dir, call[p].version))
    IN  /\ pc[p] = "es_compile"
        /\ \E outcome \in CompileOutcomes :
            LET r == RunNpmCompile(fs, container_dir, repo_root, call[p].version, outcome)
            IN  /\ Log(p, trace[p], <<"npm_compile">>, outcome # "ok")
                /\ Touch(p, r.fs, ~r.ok)
                /\ IF r.ok THEN Goto(p, "es_return") ELSE Return(p, Err("npm run-script compile"))
        /\ UNCHANGED <<tool, call, loc, tok, prev>>

\* Ok(LanguageServerBinary { path: self.node.binary_path().await?, ... })
EsReturn(p) ==
    /\ pc[p] = "es_return"
    /\ \E launcher_ok \in BOOLEAN :
        /\ Return(p, EsFetchResult(ContainerDir("es"), call[p].version, launcher_ok))
        /\ Log(p, trace[p], <<"binary_path">>, ~launcher_ok)
    /\ Touch(p, fs, TRUE)
    /\ UNCHANGED <<tool, call, loc, tok, prev>>

\* EsLintLspAdapter::cached_server_binary
EsCached(p) ==
    \E first \in FirstEntries(fs, ContainerDir("es")) :
        /\ Begin(p, "cached_server_binary", "es", NoToken)
        /\ Return(p, EsCachedServerBinary(fs, ContainerDir("es"), first))
        /\ Log(p, <<>>, <<"read_dir">>, FALSE)
        /\ Touch(p, fs, TRUE)
        /\ loc' = [loc EXCEPT ![p] = [first |-> first, shape |-> "none"]]
        /\ UNCHANGED tok

----
Next ==
    \/ \E a \in Adapters : CreateContainer(a)
    \/ StrayFile
    \/ \E p \in Procs : TsFetchLatest(p)
    \/ \E p \in Procs : TsFetchBegin(p)
    \/ \E p \in Procs : TsInstall(p)
    \/ \E p \in Procs : TsReturn(p)
    \/ \E p \in Procs : TsCached(p)
    \/ \E p \in Procs : EsFetchLatest(p)
    \/ \E p \in Procs : EsFetchBegin(p)
    \/ \E p \in Procs : EsRemove(p)
    \/ \E p \in Procs : EsGet(p)
    \/ \E p \in Procs : EsUnpack(p)
    \/ \E p \in Procs : EsReadDir(p)
    \/ \E p \in Procs : EsRename(p)
    \/ \E p \in Procs : EsNpmInstall(p)
    \/ \E p \in Procs : EsCompile(p)
    \/ \E p \in Procs : EsReturn(p)
    \/ \E p \in Procs : EsCached(p)

Spec == Init /\ [][Next]_vars

\* Each of two callers makes one fetch_server_binary call; the calls
\* interleave at their await points.
NextConcurrent ==
    \/ \E p \in Procs : call[p] = NoCall /\ TsFetchBegin(p)
    \/ \E p \in Procs : TsInstall(p)
    \/ \E p \in Procs : TsReturn(p)
    \/ \E p \in Procs : call[p] = NoCall /\ EsFetchBegin(p)
    \/ \E p \in Procs : EsRemove(p)
    \/ \E p \in Procs : EsGet(p)
    \/ \E p \in Procs : EsUnpack(p)
    \/ \E p \in Procs : EsReadDir(p)
    \/ \E p \in Procs : EsRename(p)
    \/ \E p \in Procs : EsNpmInstall(p)
    \/ \E p \in Procs : EsCompile(p)
    \/ \E p \in Procs : EsReturn(p)

SpecConcurrent == InitConcurrent /\ [][NextConcurrent]_vars

-----------------------------------------------------------------------------
\* Vocabulary of the properties

Idle(p) == pc[p] = "idle"

\* The capabilities that fetch, unpack or build.
InstallCapabilities ==
    {"remove_matching", "npm_install_packages", "http_get", "unpack", "rename",
     "npm_install", "npm_compile"}

Invoked(p, cap) == \E i \in 1..Len(trace[p]) : trace[p][i] = cap

\* The server binary path an InstalledBinary reports (its first argument).
ServerArgument(r) == IF r.arguments = <<>> THEN NoPath ELSE r.arguments[1]

\* p's last two fetch_server_binary calls had the same version and nothing
\* wrote to the filesystem between them.
TwiceInSequence(p) ==
    /\ call[p].op = "fetch_server_binary"
    /\ prev[p].call.op = "fetch_server_binary"
    /\ prev[p].call.version = call[p].version
    /\ prev[p].fresh

-----------------------------------------------------------------------------
\* C1 Idempotence: when fetch_server_binary is called twice in sequence with the
\* same version and container directory and the first call succeeded, the second
\* call invokes no fetch, unpack or build capability, and (its launcher lookup
\* working) returns the very InstalledBinary the first call returned.
C1_Idempotence ==
    \A p \in Procs :
        (TwiceInSequence(p) /\ prev[p].ret.status = "ok") =>
            /\ \A cap \in InstallCapabilities : ~Invoked(p, cap)
            /\ (Idle(p) /\ ~fault[p]) => ret[p] = prev[p].ret

\* The second of two calls has returned; the first had installed into an
\* empty container directory.
C1_Witness ==
    \E p \in Procs :
        /\ TwiceInSequence(p) /\ prev[p].ret.status = "ok" /\ prev[p].call.empty
        /\ Idle(p) /\ ret[p].status = "ok" /\ tool = "es"

\* C2 Miss-then-install: cached_server_binary on an empty container directory
\* returns absent; right after a successful fetch_server_binary into that
\* directory it returns a present result with the launcher path and the server
\* binary path that fetch_server_binary returned.
C2_MissThenInstall ==
    \A p \in Procs :
        (Idle(p) /\ call[p].op = "cached_server_binary") =>
            /\ (fresh[p] /\ Entries(fs, ContainerDir(tool)) = {}) => ret[p].status = "none"
            /\ (/\ prev[p].call.op = "fetch_server_binary"
                /\ prev[p].call.empty
                /\ prev[p].ret.status = "ok"
                /\ prev[p].fresh
                /\ ~fault[p]) =>
                   /\ ret[p].status = "some"
                   /\ ret[p].path = prev[p].ret.path
                   /\ ServerArgument(ret[p]) = ServerArgument(prev[p].ret)

\* C3 Layout priority: when both the legacy cli.js and the current cli.mjs
\* exist, the TypeScript cached_server_binary returns the current-layout path;
\* it returns the legacy path only when cli.mjs is absent and cli.js exists.
C3_LayoutPriority ==
    \A p \in Procs :
        (tool = "ts" /\ Idle(p) /\ fresh[p] /\ call[p].op = "cached_server_binary") =>
            LET old == Join(ContainerDir("ts"), OLD_SERVER_PATH)
                new == Join(ContainerDir("ts"), NEW_SERVER_PATH)
            IN  /\ (Exists(fs, old) /\ Exists(fs, new) /\ ~fault[p]) =>
                       ret[p].status = "some" /\ ServerArgument(ret[p]) = new
                /\ (ret[p].status = "some" /\ ServerArgument(ret[p]) = old) =>
                       ~Exists(fs, new) /\ Exists(fs, old)

\* Both layouts are on disk and cached_server_binary has just answered.
C3_Witness ==
    \E p \in Procs :
        /\ tool = "ts" /\ Idle(p) /\ fresh[p] /\ call[p].op = "cached_server_binary"
        /\ Exists(fs, Join(ContainerDir("ts"), OLD_SERVER_PATH))
        /\ Exists(fs, Join(ContainerDir("ts"), NEW_SERVER_PATH))
        /\ ret[p].status = "some"

\* C4 cached_server_binary never fails: whatever the container directory
\* holds, it returns a present InstalledBinary or absent; every error inside
\* it becomes absent and none reaches the caller.
C4_CachedNeverFails ==
    \A p \in Procs :
        (Idle(p) /\ call[p].op = "cached_server_binary") =>
            /\ ret[p].status \in {"some", "none"}
            /\ ret[p].status = "some" <=> ret[p].msg = ""
            /\ ret[p].status = "some" => ret[p].path # NoPath

\* The ESLint lookup met a first entry that is not a directory.
C4_Witness ==
    \E p \in Procs :
        /\ Idle(p) /\ call[p].op = "cached_server_binary"
        /\ ret[p].status = "none" /\ ret[p].msg = "First entry is not a directory"

\* C5 Stale cleanup: the ESLint fetch_server_binary removes every entry of the
\* container directory other than the requested version's destination (so
\* another version's destination directory goes), and it does so before the
\* download and the unpack that creates the destination.
C5_StaleCleanup ==
    [][\A p \in Procs :
          LET dir == ContainerDir("es")
              destination_path == EsDestinationPath(dir, call[p].version)
          IN  /\ (pc[p] = "es_remove" /\ pc'[p] = "es_get") =>
                    /\ \A e \in Entries(fs, dir) : e # destination_path => ~Exists(fs', e)
                    /\ Entries(fs', dir) \subseteq {destination_path}
                    /\ ~(\E i \in 1..Len(trace'[p]) : trace'[p][i] \in {"http_get", "unpack"})
              /\ (pc'[p] \in {"es_get", "es_unpack", "es_read_dir"}) =>
                    \E i \in 1..Len(trace'[p]) :
                        /\ trace'[p][i] = "remove_matching"
                        /\ \A j \in 1..(i - 1) : trace'[p][j] \notin {"http_get", "unpack"}
      ]_vars

\* Version V2 is being installed right after a successful install of another
\* version V1: V1's directory is gone and V2's is not there yet.
C5_Witness ==
    \E p \in Procs :
        /\ pc[p] = "es_get"
        /\ prev[p].call.op = "fetch_server_binary" /\ prev[p].ret.status = "ok"
        /\ prev[p].fresh
        /\ prev[p].call.version # call[p].version
        /\ Entries(fs, ContainerDir("es")) = {}

\* C6 Unpack normalization: when the archive unpacks into a single top-level
\* directory, the ESLint fetch_server_binary renames that entry to
\* "vscode-eslint": the call succeeds, the entry is gone under its arbitrary
\* name, and the path returned is <destination>/vscode-eslint/server/out/
\* eslintServer.js, an existing file.
C6_UnpackNormalization ==
    \A p \in Procs :
        (/\ tool = "es" /\ Idle(p) /\ fresh[p]
         /\ call[p].op = "fetch_server_binary"
         /\ Invoked(p, "unpack") /\ loc[p].shape = "single"
         /\ ~fault[p]) =>
            LET destination_path == EsDestinationPath(ContainerDir("es"), call[p].version)
            IN  /\ ret[p].status = "ok"
                /\ ~Exists(fs, Join(destination_path, <<ArchiveRoot(call[p].version.url)>>))
                /\ ServerArgument(ret[p]) =
                       Join(destination_path,
                            <<"vscode-eslint", "server", "out", "eslintServer.js">>)
                /\ Exists(fs, ServerArgument(ret[p]))

\* C7 Failure propagation: when the remote query of fetch_latest_server_version
\* fails, the call returns an error, hands out no version token, and leaves the
\* filesystem exactly as it was.
C7_FailurePropagation ==
    [][\A p \in Procs :
          (/\ pc[p] = "idle" /\ pc'[p] = "idle"
           /\ call'[p].op = "fetch_latest_server_version"
           /\ fresh'[p]
           /\ fault'[p]) =>
              /\ ret'[p].status = "err"
              /\ tok'[p] = NoToken
              /\ fs' = fs
      ]_vars

\* A version lookup has failed over a container directory that holds entries.
C7_Witness ==
    \E p \in Procs :
        /\ Idle(p) /\ call[p].op = "fetch_latest_server_version"
        /\ fault[p] /\ ret[p].status = "err"
        /\ Entries(fs, ContainerDir(tool)) # {}

\* C8 Lockstep version resolution: the TypeScript fetch_latest_server_version
\* returns a token exactly when both registry queries succeeded; every token a
\* caller holds or passes to fetch_server_binary carries both versions.
C8_Lockstep ==
    \A p \in Procs :
        /\ tok[p].kind = "ts" =>
               tok[p].typescript_version \in Versions /\ tok[p].server_version \in Versions
        /\ (call[p].op = "fetch_server_binary" /\ call[p].adapter = "ts") =>
               /\ call[p].version.typescript_version \in Versions
               /\ call[p].version.server_version \in Versions
        /\ (tool = "ts" /\ Idle(p) /\ call[p].op = "fetch_latest_server_version") =>
               /\ ret[p].status = "ok" <=> ~fault[p]
               /\ ret[p].status = "ok" => ret[p].version = tok[p] /\ tok[p].kind = "ts"
               /\ fault[p] => ret[p].version = NoToken /\ tok[p] = NoToken

\* The first query succeeded, the second failed, and no token came out.
C8_Witness ==
    \E p \in Procs :
        /\ tool = "ts" /\ Idle(p) /\ call[p].op = "fetch_latest_server_version"
        /\ Len(trace[p]) = 2 /\ fault[p]
        /\ ret[p].status = "err" /\ tok[p] = NoToken

\* The canonical binary paths: the TypeScript server's, and the ESLint
\* server's for every release.
CanonicalPaths ==
    {TsServerPath(ContainerDir("ts"))}
    \cup {EsServerPath(ContainerDir("es"),
                       GitHubLspBinaryVersion(ReleaseName(v), TarballUrl(v))) : v \in Versions}

\* C9 Complete-before-visible: a file exists at a canonical binary path only
\* if every step of the install that wrote it completed successfully.
C9_CompleteBeforeVisible ==
    \A path \in CanonicalPaths :
        path \in DOMAIN fs.files => fs.files[path].done

\* C10 Safe when partially completed: after a fetch_server_binary call failed,
\* the next call with the same version and container directory, every
\* capability succeeding, returns success and its canonical binary path exists.
C10_SafeWhenPartial ==
    \A p \in Procs :
        (/\ Idle(p) /\ fresh[p]
         /\ TwiceInSequence(p) /\ prev[p].ret.status = "err"
         /\ ~fault[p] /\ loc[p].shape # "empty") =>
            /\ ret[p].status = "ok"
            /\ Exists(fs, ServerArgument(ret[p]))

\* C11 Deterministic pick: for fixed container-directory contents every
\* cached_server_binary call returns the same result, whatever the order in
\* which the filesystem enumerates the entries: two calls in a row, nothing
\* written in between and the launcher lookup working, return the same value.
C11_DeterministicPick ==
    [][\A p \in Procs :
          (/\ Idle(p) /\ call[p].op = "cached_server_binary" /\ fresh[p] /\ ~fault[p]
           /\ pc'[p] = "idle" /\ call'[p].op = "cached_server_binary" /\ ~fault'[p]
           /\ fs' = fs) =>
              ret'[p] = ret[p]
      ]_vars

\* C12 No mutual exclusion: nothing serialises two fetch_server_binary calls on
\* one container.  A caller that has not called yet and whose canonical binary
\* is absent can always pass the existence check into the install steps, and a
\* caller that passed it can always take its next step, whatever the other
\* caller is doing; so both can be downloading the same version at once.
C12_NoMutualExclusion ==
    \A p \in Procs :
        /\ (/\ Idle(p) /\ call[p] = NoCall /\ tok[p].kind = "es"
            /\ EsMetadataIsErr(fs, ContainerDir("es"), tok[p])) =>
               ENABLED (EsFetchBegin(p) /\ pc'[p] = "es_remove")
        /\ (/\ Idle(p) /\ call[p] = NoCall /\ tok[p].kind = "ts"
            /\ TsMetadataIsErr(fs, ContainerDir("ts"))) =>
               ENABLED (TsFetchBegin(p) /\ pc'[p] = "ts_install")
        /\ pc[p] = "ts_install" => ENABLED TsInstall(p)
        /\ pc[p] = "es_remove" => ENABLED EsRemove(p)
        /\ pc[p] = "es_get" => ENABLED EsGet(p)
        /\ pc[p] = "es_unpack" => ENABLED EsUnpack(p)

\* Both callers asked for the same release, both found the canonical binary
\* absent and both have downloaded the archive, neither having returned.
C12_Witness ==
    /\ tool = "es"
    /\ call["p1"].version = call["p2"].version
    /\ \A p \in Procs : pc[p] = "es_unpack" /\ trace[p] = <<"metadata", "remove_matching", "http_get">>

\* The capabilities of an ESLint fetch_server_binary whose existence check
\* misses, in the order the code calls them.
EsStepOrder ==
    <<"metadata", "remove_matching", "http_get", "unpack", "read_dir", "rename",
      "npm_install", "npm_compile", "binary_path">>

\* The capability whose failure produces each error of fetch_server_binary.
EsFailedStep(msg) ==
    CASE msg = "error downloading release" -> "http_get"
      [] msg = "unpack" -> "unpack"
      [] msg \in {"read_dir", "missing first file"} -> "read_dir"
      [] msg = "rename" -> "rename"
      [] msg = "npm install" -> "npm_install"
      [] msg = "npm run-script compile" -> "npm_compile"
      [] msg = "binary_path" -> "binary_path"
      [] OTHER -> "none"

\* Everything present in f is still present in g.
KeepsAll(f, g) ==
    /\ f.dirs \subseteq g.dirs
    /\ DOMAIN f.files \subseteq DOMAIN g.files

\* C13 Fail-fast, no retry: a step of an ESLint fetch_server_binary leaves the
\* capabilities invoked so far a prefix of the fixed order (or the two of the
\* already-installed path), so each is invoked at most once; a step that fails
\* returns the error of that very step at once, with later steps not run and
\* nothing that was on disk removed.
C13_FailFast ==
    [][\A p \in Procs :
          (tool = "es" /\ call'[p].op = "fetch_server_binary" /\ trace'[p] # trace[p]) =>
              /\ \/ IsPrefix(trace'[p], EsStepOrder)
                 \/ trace'[p] = <<"metadata", "binary_path">>
              /\ fault'[p] => pc'[p] = "idle" /\ ret'[p].status = "err"
              /\ (pc'[p] = "idle" /\ ret'[p].status = "err") =>
                    /\ trace'[p][Len(trace'[p])] = EsFailedStep(ret'[p].msg)
                    /\ KeepsAll(fs, fs')
      ]_vars

\* A call failed in the dependency install: every earlier step ran once, the
\* compile did not, and the unpacked tree is still on disk.
C13_Witness ==
    \E p \in Procs :
        /\ Idle(p) /\ call[p].op = "fetch_server_binary" /\ tool = "es"
        /\ ret[p] = Err("npm install")
        /\ trace[p] = SubSeq(EsStepOrder, 1, 7)
        /\ IsDir(fs, EsRepoRoot(EsDestinationPath(ContainerDir("es"), call[p].version)))

\* The canonical binary path of adapter a for a version.
CanonicalPath(a, version) ==
    IF a = "ts" THEN TsServerPath(ContainerDir("ts"))
    ELSE EsServerPath(ContainerDir("es"), version)

\* C14 Already-satisfied frame: a fetch_server_binary that finds something at
\* the canonical path of the requested version goes straight to the launcher
\* lookup, and a call on that path invokes nothing but that lookup; neither
\* step changes the filesystem, whatever else the container holds.
C14_AlreadySatisfied ==
    [][\A p \in Procs :
          /\ (/\ Idle(p) /\ trace'[p] = <<"metadata">>
              /\ Exists(fs, CanonicalPath(tool, tok[p]))) =>
                 /\ pc'[p] \in {"ts_return", "es_return"}
                 /\ fs' = fs
          /\ (/\ pc[p] \in {"ts_return", "es_return"} /\ trace[p] = <<"metadata">>
              /\ trace'[p] # trace[p]) =>
                 /\ pc'[p] = "idle"
                 /\ trace'[p] = <<"metadata", "binary_path">>
                 /\ fs' = fs
      ]_vars

\* An ESLint call found its release installed next to a stray entry and
\* returned having invoked only the check and the launcher lookup.
C14_Witness ==
    \E p \in Procs :
        /\ tool = "es" /\ Idle(p) /\ call[p].op = "fetch_server_binary"
        /\ trace[p] = <<"metadata", "binary_path">>
        /\ ret[p].status = "ok"
        /\ Exists(fs, Join(ContainerDir("es"), <<StrayName>>))
        /\ Exists(fs, CanonicalPath("es", call[p].version))

\* Every path of a filesystem.
AllPaths(f) == f.dirs \cup DOMAIN f.files

\* C15 Pruning scope: the stale cleanup of an ESLint fetch_server_binary adds
\* nothing, removes only what lies at or under an immediate entry of the
\* container other than the current destination, and so removes neither the
\* container nor the destination nor anything the destination holds.
C15_PruningScope ==
    [][\A p \in Procs :
          (pc[p] = "es_remove" /\ pc'[p] = "es_get") =>
              LET container_dir == ContainerDir("es")
                  destination_path == EsDestinationPath(container_dir, call[p].version)
              IN  /\ KeepsAll(fs', fs)
                  /\ IsDir(fs', container_dir)
                  /\ \A q \in AllPaths(fs) :
                        IsPrefix(destination_path, q) =>
                            /\ q \in AllPaths(fs')
                            /\ q \in DOMAIN fs.files => fs'.files[q] = fs.files[q]
                  /\ \A q \in AllPaths(fs) \ AllPaths(fs') :
                        \E entry \in Entries(fs, container_dir) :
                            entry # destination_path /\ IsPrefix(entry, q)
      ]_vars

\* The cleanup has run in a container that held the current destination
\* with files in it: the destination is still there, nothing else is.
C15_Witness ==
    \E p \in Procs :
        LET destination_path == EsDestinationPath(ContainerDir("es"), call[p].version)
        IN  /\ pc[p] = "es_get"
            /\ ~call[p].empty
            /\ Entries(fs, ContainerDir("es")) = {destination_path}
            /\ \E q \in DOMAIN fs.files : IsPrefix(destination_path, q)

\* C16 Newest layout on install: the TypeScript fetch_server_binary runs the
\* package install exactly when nothing exists at the current-layout path
\* (cli.mjs), so also when the legacy cli.js is there; the server path of a
\* successful result is always the current-layout path.
C16_NewestLayout ==
    [][\A p \in Procs :
          LET container_dir == ContainerDir("ts")
          IN  /\ (tool = "ts" /\ Idle(p) /\ trace'[p] = <<"metadata">>) =>
                    (pc'[p] = "ts_install" <=> ~Exists(fs, Join(container_dir, NEW_SERVER_PATH)))
              /\ (pc[p] = "ts_return" /\ pc'[p] = "idle" /\ ret'[p].status = "ok") =>
                    ServerArgument(ret'[p]) = Join(container_dir, NEW_SERVER_PATH)
      ]_vars

\* A call is about to install although the legacy server is present.
C16_Witness ==
    \E p \in Procs :
        /\ pc[p] = "ts_install"
        /\ Exists(fs, Join(ContainerDir("ts"), OLD_SERVER_PATH))
        /\ ~Exists(fs, Join(ContainerDir("ts"), NEW_SERVER_PATH))

\* C17 Version-named lookup: the ESLint cached_server_binary returns present
\* exactly when the container is readable, has a first entry and that entry is
\* a directory, the result being SERVER_PATH joined under that entry; it
\* returns absent when the container cannot be read, is empty, or the first
\* entry is not a directory.
C17_VersionNamedLookup ==
    \A p \in Procs :
        (tool = "es" /\ Idle(p) /\ fresh[p] /\ call[p].op = "cached_server_binary") =>
            LET container_dir == ContainerDir("es")
                first == loc[p].first
                present == /\ IsDir(fs, container_dir)
                           /\ first \in Entries(fs, container_dir)
                           /\ IsDir(fs, first)
            IN  /\ ret[p].status \in {"some", "none"}
                /\ ret[p].status = "some" <=> present
                /\ present => ret[p].path = first \o <<"vscode-eslint", "server", "out", "eslintServer.js">>
                /\ (~IsDir(fs, container_dir) \/ Entries(fs, container_dir) = {}) =>
                      ret[p].status = "none"

\* A lookup returned present for a version directory that is the first entry.
C17_Witness ==
    \E p \in Procs :
        /\ tool = "es" /\ Idle(p) /\ fresh[p] /\ call[p].op = "cached_server_binary"
        /\ ret[p].status = "some"
        /\ loc[p].first \in Entries(fs, ContainerDir("es"))

\* C18 Empty unpack: when the enumeration of the destination after the unpack
\* yields no entry, the ESLint fetch_server_binary fails with 'missing first
\* file' at that step, having invoked no rename, dependency install or
\* compile, and leaves the filesystem as it was.
C18_EmptyUnpack ==
    [][\A p \in Procs :
          LET destination_path == EsDestinationPath(ContainerDir("es"), call[p].version)
          IN  (/\ pc[p] = "es_read_dir" /\ trace'[p] # trace[p]
               /\ IsDir(fs, destination_path) /\ Entries(fs, destination_path) = {}) =>
                  /\ pc'[p] = "idle"
                  /\ ret'[p] = Err("missing first file")
                  /\ trace'[p] = SubSeq(EsStepOrder, 1, 5)
                  /\ \A cap \in {"rename", "npm_install", "npm_compile"} :
                        \A i \in 1..Len(trace'[p]) : trace'[p][i] # cap
                  /\ fs' = fs
      ]_vars

\* A call unpacked an archive with no entry and failed on the enumeration.
C18_Witness ==
    \E p \in Procs :
        LET destination_path == EsDestinationPath(ContainerDir("es"), call[p].version)
        IN  /\ Idle(p) /\ fresh[p] /\ call[p].op = "fetch_server_binary"
            /\ ret[p] = Err("missing first file")
            /\ loc[p].shape = "empty"
            /\ IsDir(fs, destination_path) /\ Entries(fs, destination_path) = {}

\* The server binary path a result reports: the first argument, or the path
\* itself when the result carries no arguments.
ReportedServerPath(r) == IF r.arguments = <<>> THEN r.path ELSE r.arguments[1]

\* C19 Cached result is real: for both adapters, whenever cached_server_binary
\* returns present, a file exists at the server binary path the result reports.
C19_CachedResultIsReal ==
    \A p \in Procs :
        (/\ Idle(p) /\ fresh[p] /\ call[p].op = "cached_server_binary"
         /\ ret[p].status = "some") =>
            ReportedServerPath(ret[p]) \in DOMAIN fs.files

\* C20 Installed version matches request: whenever fetch_server_binary called
\* with a version returns success, the file at the canonical path it returns
\* was installed from that version, also when the container already held the
\* install of another version.
C20_InstalledVersionMatches ==
    \A p \in Procs :
        (/\ Idle(p) /\ fresh[p] /\ call[p].op = "fetch_server_binary"
         /\ ret[p].status = "ok") =>
            LET path == ServerArgument(ret[p])
            IN  /\ path = CanonicalPath(tool, call[p].version)
                /\ path \in DOMAIN fs.files
                /\ fs.files[path].by = call[p].version

====
